---- MODULE Spec2Model ----
(***************************************************************************)
(* Model of the download-and-process pipeline of dataset_downloading:      *)
(*   - split_urls / split_urls_file   (the partitioner)                     *)
(*   - download_single_video          (the fetch adapter)                   *)
(*   - process_worker / process_worker_thread (the per-shard job loop)      *)
(*   - process_one_video               (segmenting one source)              *)
(*   - main / main_threaded            (the coordinator and its workers)    *)
(*   - cleanup_temp_files, process_with_ffmpeg (cleanup, software fallback) *)
(***************************************************************************)
EXTENDS Integers, Sequences, FiniteSets, TLC

\* ------------------------------------------------------------------ bounds
\* Longest job list handed to the partitioner.
MaxN == 8
\* Largest worker count handed to the partitioner.
MaxW == 4
\* The worker counts tried go down to -MaxNegW (argparse's type=int accepts them).
MaxNegW == 2

\* Longest shard handed to one worker.
MaxJobs == 2
\* Largest frame index a clip range of a manifest ends at, for
\* process_one_video called on its own.
MaxFrames == 4
\* Largest worker count and longest URL file a coordinator is run with.
MaxWorkers == 2
MaxBatch == 3
\* Largest max_retries tried on download_single_video called on its own.
MaxRetriesTried == 4

\* How many times in a row a cleanup is run on the same files.
MaxCleanupRuns == 3

\* download_single_video(url, temp_video_dir, max_retries=3)
DefaultMaxRetries == 3

None == 0

Min(a, b) == IF a <= b THEN a ELSE b

VARIABLES
    \* --- partitioner and the coordinator's launch loop (main)
    p_urls,           \* main: urls, the job list read from the URL file
    num_workers,      \* main: args.workers
    urls_per_worker,  \* split_urls: urls_per_worker
    p_i,              \* split_urls: loop variable i of range(num_workers)
    split,            \* split_urls: the list split_urls being built / returned
    p_pc,             \* position in split_urls / main
    launched          \* main: processes, the number of workers started

VARIABLES
    \* --- one worker (process_worker or process_worker_thread) and its calls
    flavour,          \* "process": process_worker, "thread": process_worker_thread
    rm_may_fail,      \* environment: whether os.remove can raise OSError
    urls,             \* the worker's shard; job k of the batch resolves to id k
    idx,              \* loop variable i of enumerate(urls): jobs already left
    started,          \* the values i + 1 the loop body was entered with, in order
    pc,               \* position in the worker / in download_single_video
    temp_dir,         \* whether temp_video_dir exists
    temp_files,       \* ids of the .mp4 files in temp_video_dir
    cuda_ctx,         \* cuda_ctx: "none", "active" or "popped"
    ctx_pops,         \* number of cuda_ctx.pop() calls
    max_retries,      \* download_single_video: max_retries
    attempt,          \* download_single_video: attempt
    hist,             \* what each attempt of the current fetch did (its log lines)
    success,          \* success, as returned by download_single_video
    video_path,       \* video_path (and video_id: the file's name), or None
    clips,            \* clips read from the manifest
    exc,              \* the exception the job's except clause handles, or "none"
    processed_count,  \* processed_count
    failed_count,     \* failed_count
    outcomes,         \* per job: the counters bumped and warnings logged for it
    artifacts,        \* per video id: the (s, e) of the files written
    decoder_open,     \* decoder.initialize() not yet followed by decoder.finish()
    encoder_armed,    \* encoder.initialize() not yet followed by encoder.finish()
    nframes,          \* frames the decoder yields for the video of this job
    fed               \* frame indexes passed to encoder(frames) for this job

VARIABLES
    \* --- the coordinator (main, main_threaded) with all its workers
    prog,             \* the program run: which main()
    urls_file_exists, \* os.path.exists(args.urls_file)
    clip_dir_exists,  \* os.path.exists(args.input_clip_dir)
    co_pc,            \* position in main
    exit_code,        \* the exit status of the process, Running before it ends
    co_ctx,           \* main_threaded: cuda_ctx, "none", "active" or "popped"
    co_pops,          \* main_threaded: number of cuda_ctx.pop() calls
    w_pc,             \* per worker: its position
    w_idx,            \* per worker: jobs of its shard already left
    w_init,           \* per worker: "pending", "ok" or "failed" engine initialisation
    lock,             \* cuda_lock: the worker holding it, or None
    inside,           \* workers between decoder.initialize and the end of the call
    handled,          \* pairs <<worker, url>>: the worker entered the job of url
    interrupted,      \* KeyboardInterrupt was raised in main
    inflight,         \* the workers that were mid-job at that moment
    killed_in         \* per worker: the position it was terminated in, or "no"

VARIABLES
    \* --- functions run on their own
    temp_splits,      \* multi_download: the split files in temp_splits (i + 1)
    cleanup_runs,     \* how many times the cleanup has run on the same files
    ff_i              \* process_with_ffmpeg: loop variable i of enumerate(clips)

pvars == <<p_urls, num_workers, urls_per_worker, p_i, split, p_pc, launched>>

\* What main is run with: never assigned after its start.
coin == <<prog, urls_file_exists, clip_dir_exists>>

coctx == <<co_ctx, co_pops>>

intvars == <<interrupted, inflight>>

covars == <<coin, co_pc, exit_code, coctx, intvars>>

wkvars == <<w_pc, w_idx, w_init, lock, inside, handled, killed_in>>

cvars == <<covars, wkvars>>

\* What the worker is given: never assigned after its start.
given == <<flavour, rm_may_fail, urls, max_retries>>

\* The locals of download_single_video and what it returns.
fvars == <<attempt, hist, success, video_path>>

cudavars == <<cuda_ctx, ctx_pops>>

enginevars == <<decoder_open, encoder_armed, nframes, fed>>

countvars == <<processed_count, failed_count, outcomes>>

wvars == <<idx, started, pc, temp_dir, temp_files, clips, exc, artifacts,
           cudavars, enginevars, countvars>>

helpervars == <<temp_splits, cleanup_runs, ff_i>>

VARIABLES
    \* --- the workers of main, followed through their files and counters
    r_temp,           \* per worker: the .mp4 files in its temp_video_dir
    r_video,          \* per worker: video_path (video_id) of its job, or None
    r_clips,          \* per worker: clips of its job
    r_proc,           \* per worker: processed_count
    r_fail,           \* per worker: failed_count
    out_files,        \* per video id: the (s, e) of the artifacts in output_dir
    all_ok            \* so far every fetch and every engine call succeeded
                      \* and every manifest read was [(0, 2)]

runvars == <<r_temp, r_video, r_clips, r_proc, r_fail, out_files, all_ok>>

vars == <<pvars, cvars, given, fvars, wvars, helpervars, runvars>>

\* Video ids: the url of job k resolves to id k.
Ids == 1..MaxJobs

\* exit_code while the process runs.
Running == -1

\* The ids of the workers a coordinator can start (worker_id + 1).
Workers == 1..MaxWorkers

\* The coordinator has started no worker and has not been interrupted.
NoWorkerStarted ==
    /\ w_pc = [w \in Workers |-> "unstarted"]
    /\ w_idx = [w \in Workers |-> 0]
    /\ w_init = [w \in Workers |-> "pending"]
    /\ lock = None
    /\ inside = {}
    /\ handled = {}
    /\ interrupted = FALSE
    /\ inflight = {}
    /\ killed_in = [w \in Workers |-> "no"]

\* Neither cleanup nor process_with_ffmpeg has run.
HelpersIdle ==
    /\ temp_splits = {}
    /\ cleanup_runs = 0
    /\ ff_i = 0

\* No worker of main has fetched or counted anything.
RunIdle ==
    /\ r_temp = [w \in Workers |-> {}]
    /\ r_video = [w \in Workers |-> None]
    /\ r_clips = [w \in Workers |-> <<>>]
    /\ r_proc = [w \in Workers |-> 0]
    /\ r_fail = [w \in Workers |-> 0]
    /\ out_files = [v \in 1..MaxBatch |-> {}]
    /\ all_ok = TRUE

\* No coordinator is running.
CoIdle ==
    /\ prog = "none"
    /\ urls_file_exists = TRUE
    /\ clip_dir_exists = TRUE
    /\ co_pc = "idle"
    /\ exit_code = Running
    /\ co_ctx = "none"
    /\ co_pops = 0
    /\ NoWorkerStarted

\* The partitioner is not running.
PartIdle ==
    /\ p_urls = <<>>
    /\ num_workers = 1
    /\ urls_per_worker = None
    /\ p_i = 0
    /\ split = <<>>
    /\ p_pc = "idle"
    /\ launched = 0

\* The state a worker is in at position at, with fetched (None, or the id of
\* the file download_single_video returned) and the clips cl bound.
WorkerAt(fl, rmf, shard, at, files, retries, fetched, cl) ==
    /\ flavour = fl
    /\ rm_may_fail = rmf
    /\ urls = shard
    /\ idx = 0
    /\ started = IF at \in {"idle", "start", "loop"} THEN <<>> ELSE <<1>>
    /\ pc = at
    /\ temp_dir = FALSE
    /\ temp_files = files
    /\ cuda_ctx = IF fl = "process" /\ at \in {"idle", "start"}
                  THEN "none" ELSE "active"
    /\ ctx_pops = 0
    /\ max_retries = retries
    /\ attempt = 0
    /\ hist = <<>>
    /\ success = (fetched # None)
    /\ video_path = fetched
    /\ clips = cl
    /\ exc = "none"
    /\ processed_count = 0
    /\ failed_count = 0
    /\ outcomes = [k \in 1..Len(shard) |-> <<>>]
    /\ artifacts = [v \in Ids |-> {}]
    /\ decoder_open = FALSE
    /\ encoder_armed = FALSE
    /\ nframes = 0
    /\ fed = {}

\* The state a worker starts from.
WorkerInit(fl, rmf, shard, at, files, retries) ==
    WorkerAt(fl, rmf, shard, at, files, retries, None, <<>>)

\* No worker is running.
WorkerIdle == WorkerInit("process", FALSE, <<>>, "idle", {}, DefaultMaxRetries)

\* ------------------------------------------------------------ partitioner

\* math.ceil(n / w) for n >= 0 and w # 0, with Python's true division:
\* for w < 0 the quotient is <= 0 and its ceiling is -(floor(n / -w)).
CeilDiv(n, w) == IF w > 0 THEN (n + w - 1) \div w ELSE -(n \div (-w))

FloorDivUrls(n, w) == IF w > 0 THEN n \div w ELSE -((n + (-w) - 1) \div (-w))

\* urls_per_worker = math.ceil(len(urls) / num_workers)
UrlsPerWorker(n, w) == CeilDiv(n, w)

SliceShort(s, start_idx, end_idx) == SubSeq(s, start_idx + 1, end_idx - 1)

\* urls[start_idx:end_idx] for 0 <= start_idx <= end_idx <= len(urls)
Slice(s, start_idx, end_idx) == SubSeq(s, start_idx + 1, end_idx)

\* worker_urls of iteration i
WorkerUrls(all_urls, i, per) ==
    Slice(all_urls, i * per, Min((i + 1) * per, Len(all_urls)))

BreakNever(all_urls, i, per) == FALSE

\* if start_idx >= len(urls): break
SplitBreaks(all_urls, i, per) == i * per >= Len(all_urls)

InitPart ==
    /\ \E n \in 0..MaxN : p_urls = [k \in 1..n |-> k]
    /\ num_workers \in (-MaxNegW)..MaxW
    /\ urls_per_worker = None
    /\ p_i = 0
    /\ split = <<>>
    /\ p_pc = "split_urls"
    /\ launched = 0
    /\ CoIdle
    /\ HelpersIdle
    /\ RunIdle
    /\ WorkerIdle

\* split_urls, line 378: the division raises ZeroDivisionError for
\* num_workers = 0; nothing in main catches it.
SplitBegin ==
    /\ p_pc = "split_urls"
    /\ IF num_workers = 0
       THEN /\ p_pc' = "ZeroDivisionError"
            /\ UNCHANGED urls_per_worker
       ELSE /\ urls_per_worker' = UrlsPerWorker(Len(p_urls), num_workers)
            /\ p_pc' = "for"
    /\ UNCHANGED <<p_urls, num_workers, p_i, split, launched>>
    /\ UNCHANGED <<cvars, given, fvars, wvars, helpervars, runvars>>

\* One iteration of `for i in range(num_workers)`.
SplitIter ==
    /\ p_pc = "for"
    /\ p_i < num_workers
    /\ IF SplitBreaks(p_urls, p_i, urls_per_worker)
       THEN /\ p_pc' = "return"
            /\ UNCHANGED <<split, p_i>>
       ELSE /\ split' = Append(split, WorkerUrls(p_urls, p_i, urls_per_worker))
            /\ p_i' = p_i + 1
            /\ UNCHANGED p_pc
    /\ UNCHANGED <<p_urls, num_workers, urls_per_worker, launched>>
    /\ UNCHANGED <<cvars, given, fvars, wvars, helpervars, runvars>>

\* range(num_workers) is exhausted (at once when num_workers < 0).
SplitExhausted ==
    /\ p_pc = "for"
    /\ p_i >= num_workers
    /\ p_pc' = "return"
    /\ UNCHANGED <<p_urls, num_workers, urls_per_worker, p_i, split, launched>>
    /\ UNCHANGED <<cvars, given, fvars, wvars, helpervars, runvars>>

\* main: one process.start() per shard, then the joins.
MainLaunch ==
    /\ p_pc = "return"
    /\ IF launched < Len(split)
       THEN /\ launched' = launched + 1
            /\ UNCHANGED p_pc
       ELSE /\ p_pc' = "joined"
            /\ UNCHANGED launched
    /\ UNCHANGED <<p_urls, num_workers, urls_per_worker, p_i, split>>
    /\ UNCHANGED <<cvars, given, fvars, wvars, helpervars, runvars>>

NextPart == SplitBegin \/ SplitIter \/ SplitExhausted \/ MainLaunch

SpecPart == InitPart /\ [][NextPart]_vars

\* The partitioner has returned its list of shards.
Returned == p_pc \in {"return", "joined"}

RECURSIVE Concat(_)
Concat(ss) == IF ss = <<>> THEN <<>> ELSE Head(ss) \o Concat(Tail(ss))

ShardSizes == {Len(split[k]) : k \in 1..Len(split)}

SetMax(S) == CHOOSE x \in S : \A y \in S : y <= x
SetMin(S) == CHOOSE x \in S : \A y \in S : x <= y

CeilNW == CeilDiv(Len(p_urls), num_workers)

\* C1: for W >= 1 the returned shards, concatenated in shard order, are the
\* input list: nothing dropped, duplicated or reordered.
C1_ConcatIsInput ==
    (Returned /\ num_workers >= 1) => Concat(split) = p_urls

C1_Witness ==
    /\ Returned /\ num_workers = 3 /\ Len(p_urls) = 5
    /\ split = << <<1, 2>>, <<3, 4>>, <<5>> >>

\* C2 as stated: for W >= 1 the largest and smallest shard differ by at most 1.
C2_Balanced ==
    (Returned /\ num_workers >= 1 /\ split # <<>>)
        => SetMax(ShardSizes) - SetMin(ShardSizes) <= 1

\* C2 amended: every shard but the last has ceil(N/W) jobs and the last has
\* at most that many, so largest - smallest <= ceil(N/W) - 1.
C2_BalancedUpToChunk ==
    (Returned /\ num_workers >= 1 /\ split # <<>>)
        => /\ \A k \in 1..(Len(split) - 1) : Len(split[k]) = CeilNW
           /\ Len(split[Len(split)]) \in 1..CeilNW
           /\ SetMax(ShardSizes) - SetMin(ShardSizes) <= CeilNW - 1

C2_Witness ==
    /\ Returned /\ num_workers = 3 /\ Len(p_urls) = 7
    /\ ShardSizes = {3, 1}

\* C3: for W >= 1 at most W shards, none empty, all but the last of size
\* ceil(N/W), the last of size 1..ceil(N/W).
C3_ShardShape ==
    (Returned /\ num_workers >= 1)
        => /\ Len(split) <= num_workers
           /\ \A k \in 1..Len(split) :
                /\ Len(split[k]) >= 1
                /\ k < Len(split) => Len(split[k]) = CeilNW
                /\ Len(split[k]) <= CeilNW

C3_Witness ==
    /\ Returned /\ num_workers = 4 /\ Len(p_urls) = 5
    /\ Len(split) = 3 /\ Len(split[3]) = 1

\* C4: a worker count <= 0 makes partitioning fail before any worker is
\* launched; it never yields an empty list of shards silently.
C4_InvalidConfig ==
    (num_workers <= 0 /\ p_pc # "split_urls" /\ p_pc # "for")
        => (p_pc = "ZeroDivisionError" /\ launched = 0)

\* ------------------------------------------------------------- segmenting
\* process_one_video(video_filename, vstream_filename_format, clips, decoder,
\* encoder, ...) on a video of nf frames. fault is the frame index at
\* which a call of the engine (the decoder's iteration, encoder(frames),
\* encoder.finish() or the write of the artifact) raises, FaultAtOpen when
\* decoder.initialize raises, NoFault when nothing raises.
NoFault == -1
FaultAtOpen == -2

\* clips[clip_idx] of the 0-based Python list
ClipAt(cl, clip_idx) == cl[clip_idx + 1]

\* One pass of the frame loop, lines 53-73, from the loop state st:
\*   frame_idx, clip_idx, s, e, files   the locals of that name
\*   fed      the frame indexes passed to encoder(frames)
\*   armed    encoder.initialize() without encoder.finish() yet
\*   raised   an exception left the loop
RECURSIVE FrameLoop(_, _, _, _)
FrameLoop(st, cl, nf, fault) ==
    IF st.frame_idx >= nf THEN st
    ELSE IF st.frame_idx = fault THEN [st EXCEPT !.raised = TRUE]
    ELSE IF st.frame_idx = st.s
    THEN FrameLoop([st EXCEPT !.armed = TRUE,
                              !.fed = @ \cup {st.frame_idx},
                              !.frame_idx = @ + 1], cl, nf, fault)
    ELSE IF st.s < st.frame_idx /\ st.frame_idx < st.e - 1
    THEN FrameLoop([st EXCEPT !.fed = @ \cup {st.frame_idx},
                              !.frame_idx = @ + 1], cl, nf, fault)
    ELSE IF st.frame_idx = st.e - 1
    THEN LET done == [st EXCEPT !.armed = FALSE,
                                !.fed = @ \cup {st.frame_idx},
                                !.files = Append(@, <<st.s, st.e>>),
                                !.clip_idx = @ + 1]
         IN  IF done.clip_idx = Len(cl)
             THEN done
             ELSE FrameLoop([done EXCEPT !.s = ClipAt(cl, done.clip_idx)[1],
                                         !.e = ClipAt(cl, done.clip_idx)[2],
                                         !.frame_idx = @ + 1],
                            cl, nf, fault)
    ELSE FrameLoop([st EXCEPT !.frame_idx = @ + 1], cl, nf, fault)

\* assert clip_idx == len(clips) == len(files)   (line 74)
SegmentCountOk(st, cl) == st.clip_idx = Len(cl) /\ Len(cl) = Len(st.files)

\* The whole call: what it wrote, what it raised ("none", "EngineError" for
\* an exception of the engine or of the write, "AssertionError" for line 74)
\* and the sessions it leaves open. was_open / was_armed: the engine's state from earlier jobs.
process_one_video(cl, nf, fault, was_open, was_armed) ==
    IF Len(cl) = 0
    THEN [files |-> <<>>, fed |-> {}, raised |-> "none",
          decoder_open |-> was_open, encoder_armed |-> was_armed]
    ELSE IF fault = FaultAtOpen
    THEN [files |-> <<>>, fed |-> {}, raised |-> "EngineError",
          decoder_open |-> was_open, encoder_armed |-> was_armed]
    ELSE LET st == FrameLoop([frame_idx |-> 0, clip_idx |-> 0,
                              s |-> cl[1][1], e |-> cl[1][2], files |-> <<>>,
                              fed |-> {}, armed |-> was_armed, raised |-> FALSE],
                             cl, nf, fault)
             ok == ~st.raised /\ SegmentCountOk(st, cl)
         IN  [files |-> st.files, fed |-> st.fed,
              raised |-> IF st.raised THEN "EngineError"
                         ELSE IF ok THEN "none" ELSE "AssertionError",
              decoder_open |-> ~ok, encoder_armed |-> st.armed]

\* The clip ranges (start, end) with start < end up to MaxFrames.
Ranges == {r \in (0..MaxFrames) \X (0..MaxFrames) : r[1] < r[2]}

\* No two ranges of S overlap (adjacent ranges do not).
NonOverlapping(S) ==
    \A a, b \in S : a # b => (a[2] <= b[1] \/ b[2] <= a[1])

\* The ranges of S as the manifest lists them: sorted by start.
RECURSIVE SortedClips(_)
SortedClips(S) ==
    IF S = {} THEN <<>>
    ELSE LET first == CHOOSE a \in S : \A b \in S : a[1] <= b[1]
         IN  <<first>> \o SortedClips(S \ {first})

\* Every clip list that satisfies the manifest format, up to MaxFrames.
ManifestClipLists ==
    {SortedClips(S) : S \in {T \in SUBSET Ranges : NonOverlapping(T)}}

\* ---------------------------------------------------------- fetch adapter
\* download_single_video. Each attempt appends one entry to hist:
\*   "exit0"          yt-dlp returned 0 and a .mp4 was found: Success
\*   "exit0_nofile"   yt-dlp returned 0 and no .mp4 is in the directory
\*   "scan_error"     yt-dlp returned 0 and os.listdir raised
\*   "nonzero_sleep"  non-zero return code, then time.sleep(5)
\*   "nonzero"        non-zero return code on the last attempt, no sleep
\*   "timeout"        subprocess.TimeoutExpired
\*   "error"          any other exception of subprocess.run

MoreAttemptsOffByOne(a, retries) == a <= retries

\* for attempt in range(max_retries): another iteration is due
MoreAttempts(a, retries) == a < retries

CaughtTimeoutOnly(ex) == ex = "TimeoutExpired"

\* except subprocess.TimeoutExpired / except Exception (lines 124-129)
Caught(ex) == ex \in {"TimeoutExpired", "Exception", "OSError"}

\* if attempt < max_retries - 1: time.sleep(5)
SleepsAfterNonZero(a, retries) == a < retries - 1

\* The candidates for the first name of os.listdir that ends with ".mp4":
\* the order of os.listdir is arbitrary.
FirstListed(files) == files

\* The id the url being fetched resolves to.
UrlId == urls[idx + 1]

FetchRest == <<pvars, cvars, helpervars, runvars,
               started, given, idx, temp_dir, clips, exc, artifacts,
               cudavars, enginevars, countvars>>

\* return success, path, id  (lines 116, 118, 131)
FetchReturn(ok, path) ==
    /\ success' = ok
    /\ video_path' = path
    /\ pc' = "fetched"
    /\ UNCHANGED attempt

\* The exception ex is raised inside the try of one attempt.
FetchRaise(ex, entry) ==
    IF Caught(ex)
    THEN /\ attempt' = attempt + 1
         /\ hist' = Append(hist, entry)
         /\ UNCHANGED <<success, video_path, pc>>
    ELSE /\ pc' = "fetch_raised"
         /\ hist' = Append(hist, entry)
         /\ UNCHANGED <<success, video_path, attempt>>

NoFileFoundRetries ==
    /\ hist' = Append(hist, "exit0_nofile")
    /\ attempt' = attempt + 1
    /\ UNCHANGED <<success, video_path, pc>>

\* Line 118: no .mp4 is in the directory: return False, None, None.
NoFileFound ==
    /\ hist' = Append(hist, "exit0_nofile")
    /\ FetchReturn(FALSE, None)

\* Lines 109-118: yt-dlp returns 0, having written {id}.mp4 or not; the
\* directory is listed and the first .mp4 found is returned.
FetchExitZero ==
    /\ pc = "fetch"
    /\ MoreAttempts(attempt, max_retries)
    /\ \E created \in BOOLEAN, scan \in {"listed", "OSError"} :
         LET files == IF created THEN temp_files \cup {UrlId} ELSE temp_files
         IN  /\ temp_files' = files
             /\ IF scan = "OSError"
                THEN FetchRaise("OSError", "scan_error")
                ELSE IF files = {}
                THEN NoFileFound
                ELSE /\ hist' = Append(hist, "exit0")
                     /\ \E f \in FirstListed(files) : FetchReturn(TRUE, f)
    /\ UNCHANGED FetchRest

\* Lines 119-122: non-zero return code.
FetchNonZero ==
    /\ pc = "fetch"
    /\ MoreAttempts(attempt, max_retries)
    /\ hist' = Append(hist, IF SleepsAfterNonZero(attempt, max_retries)
                            THEN "nonzero_sleep" ELSE "nonzero")
    /\ attempt' = attempt + 1
    /\ UNCHANGED <<success, video_path, pc, temp_files>>
    /\ UNCHANGED FetchRest

\* Lines 124-129: subprocess.run raises.
FetchException ==
    /\ pc = "fetch"
    /\ MoreAttempts(attempt, max_retries)
    /\ \E ex \in {"TimeoutExpired", "Exception"} :
         FetchRaise(ex, IF ex = "TimeoutExpired" THEN "timeout" ELSE "error")
    /\ UNCHANGED temp_files
    /\ UNCHANGED FetchRest

\* Line 131: the attempts are used up.
FetchExhausted ==
    /\ pc = "fetch"
    /\ ~MoreAttempts(attempt, max_retries)
    /\ FetchReturn(FALSE, None)
    /\ UNCHANGED <<hist, temp_files>>
    /\ UNCHANGED FetchRest

\* download_single_video called on its own, for every max_retries tried and
\* every content of the directory left by earlier jobs.
InitFetch ==
    /\ PartIdle
    /\ CoIdle
    /\ HelpersIdle
    /\ RunIdle
    /\ \E retries \in 0..MaxRetriesTried, stale \in SUBSET (Ids \ {1}) :
         WorkerInit("process", FALSE, <<1>>, "fetch", stale, retries)

NextFetch == FetchExitZero \/ FetchNonZero \/ FetchException \/ FetchExhausted

SpecFetch == InitFetch /\ [][NextFetch]_vars

FailureEntries == {"nonzero_sleep", "nonzero", "timeout", "error"}

\* The attempts of the current fetch on which the downloader failed.
DownloaderFailures == Cardinality({n \in 1..Len(hist) : hist[n] \in FailureEntries})

\* The downloader fails some attempts and then succeeds, writing its file.
FailsThenSucceeds ==
    \A n \in 1..Len(hist) : hist[n] \in FailureEntries \cup {"exit0"}

\* C5: a downloader failing its first k attempts and then succeeding is
\* invoked k+1 times and fetch returns Success when k < max_retries; it is
\* invoked max_retries times and fetch returns Failure otherwise; it is never
\* invoked more than max_retries times.
C5_AttemptCount ==
    /\ Len(hist) <= max_retries
    /\ (pc = "fetched" /\ FailsThenSucceeds)
         => IF DownloaderFailures < max_retries
            THEN success /\ Len(hist) = DownloaderFailures + 1
            ELSE ~success /\ Len(hist) = max_retries

C5_Witness ==
    /\ pc = "fetched" /\ max_retries = 3 /\ success
    /\ hist = <<"nonzero_sleep", "timeout", "exit0">>

\* C6: fetch never raises: for every per-attempt outcome and every
\* max_retries >= 0 it returns a Success triple or (False, None, None).
C6_NeverRaises ==
    /\ pc # "fetch_raised"
    /\ pc = "fetched" =>
         \/ success /\ video_path \in temp_files
         \/ ~success /\ video_path = None

C6_Witness ==
    /\ pc = "fetched" /\ max_retries = 3 /\ ~success
    /\ hist = <<"timeout", "error", "scan_error">>

\* ---------------------------------------------------------------- worker
\* process_worker (flavour "process") and process_worker_thread (flavour
\* "thread"): the loop over the shard. Positions:
\*   "start"     before the CUDA initialisation        (process only)
\*   "loop"      at `for i, url in enumerate(urls)`
\*   "fetch"     inside download_single_video
\*   "fetched"   download_single_video has returned
\*   "manifest"  at the lookup of the clip file
\*   "segment"   at the call of process_one_video
\*   "delete"    at the os.remove after processing
\*   "except"    in the except clause of the job
\*   "finally"   in the finally clause                 (process only)
\*   "returned"  the worker has returned

\* The clip lists a manifest file can hold (the empty one: a file without
\* lines). A missing file and a file with a line int() rejects have their
\* own actions.
ClipLists == { <<>>, << <<0, 2>> >>, << <<0, 2>>, <<3, 5>> >> }

\* Numbers of frames the decoder yields for a video.
FrameCounts == {2, 5}

\* Where the engine raises while a video is processed.
Faults == {NoFault, FaultAtOpen, 1}

Job == idx + 1

\* The log of the current job gets an entry: "completed" for
\* processed_count += 1, "failed" for failed_count += 1,
\* "warn_no_clip_file" / "warn_clip_file_empty" for the warnings of lines
\* 226 and 236.
Logged(entries) == [outcomes EXCEPT ![Job] = @ \o entries]

\* The outcomes os.remove(path) can have: the file is gone, or OSError.
RemoveOutcomes == IF rm_may_fail THEN {"removed", "OSError"} ELSE {"removed"}

\* The except clause of the job removes the source file:
\* process_worker does when the file exists (lines 277-281),
\* process_worker_thread only logs (lines 372-373).
ExceptRemoves(fl, exists) == fl = "process" /\ exists

\* The flavour that keeps processed_count / failed_count and logs the
\* warnings: process_worker_thread has neither.
Counts(fl) == fl = "process"

NextJobRepeats ==
    /\ idx' = idx
    /\ pc' = "loop"

\* `continue`, or the end of the loop body: on to the next job.
NextJob ==
    /\ idx' = idx + 1
    /\ pc' = "loop"

RaiseLeavesLoop(e) ==
    /\ exc' = e
    /\ pc' = IF flavour = "process" THEN "finally" ELSE "returned"
    /\ UNCHANGED idx

\* An exception leaves the try body of the job.
Raise(e) ==
    /\ exc' = e
    /\ pc' = "except"
    /\ UNCHANGED idx

\* failed_count += 1, after the entries logged before it.
CountFailed(before) ==
    IF Counts(flavour)
    THEN /\ failed_count' = failed_count + 1
         /\ outcomes' = Logged(before \o <<"failed">>)
         /\ UNCHANGED processed_count
    ELSE UNCHANGED countvars

\* Only entries are logged: no counter moves.
LogOnly(entries) ==
    IF Counts(flavour)
    THEN /\ outcomes' = Logged(entries)
         /\ UNCHANGED <<processed_count, failed_count>>
    ELSE UNCHANGED countvars

\* Lines 149-201: the temp directory, then the CUDA initialisation, which
\* succeeds, fails before make_context returned, or fails after it.
WorkerStart ==
    /\ pc = "start"
    /\ temp_dir' = TRUE
    /\ \E init \in {"ok", "no_context", "after_context"} :
         CASE init = "ok" ->
                /\ cuda_ctx' = "active"
                /\ pc' = "loop"
                /\ UNCHANGED ctx_pops
           [] init = "no_context" ->
                /\ pc' = "returned"
                /\ UNCHANGED cudavars
           [] init = "after_context" ->
                /\ cuda_ctx' = "popped"
                /\ ctx_pops' = ctx_pops + 1
                /\ pc' = "returned"
    /\ UNCHANGED <<pvars, cvars, helpervars, runvars, started, given, fvars, idx, temp_files, clips, exc,
                   artifacts, enginevars, countvars>>

\* Line 207 / 321: the next url, or the end of the shard. The thread flavour
\* makes its temp directory here (line 327). No frame of the job entered has
\* been decoded yet.
LoopHead ==
    /\ pc = "loop"
    /\ IF idx < Len(urls)
       THEN /\ pc' = "fetch"
            /\ started' = Append(started, Job)
            /\ temp_dir' = TRUE
            /\ nframes' = 0
            /\ fed' = {}
       ELSE /\ pc' = IF flavour = "process" THEN "finally" ELSE "returned"
            /\ UNCHANGED <<started, temp_dir, nframes, fed>>
    /\ UNCHANGED <<pvars, cvars, helpervars, runvars, given, fvars, idx, temp_files, clips, exc,
                   artifacts, cudavars, decoder_open, encoder_armed,
                   countvars>>

\* download_single_video has returned: its locals are gone, what it returned
\* stays bound in the worker.
FetchLocalsGone ==
    /\ attempt' = 0
    /\ hist' = <<>>
    /\ UNCHANGED <<success, video_path>>

\* Lines 216-219 / 331-332: the fetch failed.
FetchFailed ==
    /\ pc = "fetched"
    /\ ~success
    /\ CountFailed(<<>>)
    /\ NextJob
    /\ FetchLocalsGone
    /\ UNCHANGED <<pvars, cvars, helpervars, runvars, started, given, temp_dir, temp_files, clips, exc, artifacts,
                   cudavars, enginevars>>

\* Line 221: the fetch succeeded.
FetchSucceeded ==
    /\ pc = "fetched"
    /\ success
    /\ pc' = "manifest"
    /\ FetchLocalsGone
    /\ UNCHANGED <<pvars, cvars, helpervars, runvars, started, given, idx, temp_dir, temp_files, clips, exc,
                   artifacts, cudavars, enginevars, countvars>>

\* Lines 225-229 / 336-338: no clip file for video_id.
ManifestMissing ==
    /\ pc = "manifest"
    /\ \E rm \in RemoveOutcomes :
         IF rm = "removed"
         THEN /\ temp_files' = temp_files \ {video_path}
              /\ CountFailed(<<"warn_no_clip_file">>)
              /\ NextJob
              /\ UNCHANGED exc
         ELSE /\ LogOnly(<<"warn_no_clip_file">>)
              /\ Raise("OSError")
              /\ UNCHANGED temp_files
    /\ UNCHANGED <<pvars, cvars, helpervars, runvars, started, given, fvars, temp_dir, clips, artifacts,
                   cudavars, enginevars>>

\* Lines 232-233 / 340-341: a line of the clip file is not two integers:
\* int() raises ValueError.
ManifestUnparsable ==
    /\ pc = "manifest"
    /\ Raise("ValueError")
    /\ UNCHANGED <<pvars, cvars, helpervars, runvars, started, given, fvars, temp_dir, temp_files, clips,
                   artifacts, cudavars, enginevars, countvars>>

\* Lines 235-238 / 343-345: the clip file holds no line.
ManifestEmpty ==
    /\ pc = "manifest"
    /\ clips' = <<>>
    /\ LogOnly(<<"warn_clip_file_empty">>)
    /\ \E rm \in RemoveOutcomes :
         IF rm = "removed"
         THEN /\ temp_files' = temp_files \ {video_path}
              /\ NextJob
              /\ UNCHANGED exc
         ELSE /\ Raise("OSError")
              /\ UNCHANGED temp_files
    /\ UNCHANGED <<pvars, cvars, helpervars, runvars, started, given, fvars, temp_dir, artifacts, cudavars,
                   enginevars>>

\* Lines 232-242: the clip file holds clips.
ManifestRead ==
    /\ pc = "manifest"
    /\ \E cl \in ClipLists \ {<<>>} : clips' = cl
    /\ pc' = "segment"
    /\ UNCHANGED <<pvars, cvars, helpervars, runvars, started, given, fvars, idx, temp_dir, temp_files, exc,
                   artifacts, cudavars, enginevars, countvars>>

\* Lines 250-263 / 352-366: process_one_video on the source; the files it
\* wrote before raising stay written. processed_count += 1 follows at once.
Segment ==
    /\ pc = "segment"
    /\ \E nf \in FrameCounts, fault \in Faults :
         LET r == process_one_video(clips, nf, fault,
                                    decoder_open, encoder_armed)
         IN  /\ artifacts' = [artifacts EXCEPT ![video_path] =
                                 @ \cup {r.files[n] : n \in 1..Len(r.files)}]
             /\ decoder_open' = r.decoder_open
             /\ encoder_armed' = r.encoder_armed
             /\ nframes' = nf
             /\ fed' = r.fed
             /\ IF r.raised # "none"
                THEN /\ Raise(r.raised)
                     /\ UNCHANGED countvars
                ELSE /\ pc' = "delete"
                     /\ UNCHANGED <<idx, exc>>
                     /\ IF Counts(flavour)
                        THEN /\ processed_count' = processed_count + 1
                             /\ outcomes' = Logged(<<"completed">>)
                             /\ UNCHANGED failed_count
                        ELSE UNCHANGED countvars
    /\ UNCHANGED <<pvars, cvars, helpervars, runvars, started, given, fvars, temp_dir, temp_files, clips,
                   cudavars>>

\* Line 266 / 369: os.remove(video_path) after processing.
DeleteSource ==
    /\ pc = "delete"
    /\ \E rm \in RemoveOutcomes :
         IF rm = "removed"
         THEN /\ temp_files' = temp_files \ {video_path}
              /\ NextJob
              /\ UNCHANGED exc
         ELSE /\ Raise("OSError")
              /\ UNCHANGED temp_files
    /\ UNCHANGED <<pvars, cvars, helpervars, runvars, started, given, fvars, temp_dir, clips, artifacts,
                   cudavars, enginevars, countvars>>

\* Lines 272-282 / 372-373: the except clause of the job.
ExceptClause ==
    /\ pc = "except"
    /\ IF ExceptRemoves(flavour, video_path \in temp_files)
       THEN \E rm \in RemoveOutcomes :
              temp_files' = IF rm = "removed"
                            THEN temp_files \ {video_path} ELSE temp_files
       ELSE UNCHANGED temp_files
    /\ CountFailed(<<>>)
    /\ exc' = "none"
    /\ NextJob
    /\ UNCHANGED <<pvars, cvars, helpervars, runvars, started, given, fvars, temp_dir, clips, artifacts,
                   cudavars, enginevars>>

\* Lines 284-305: the finally clause of process_worker.
Finally ==
    /\ pc = "finally"
    /\ IF cuda_ctx = "active"
       THEN /\ cuda_ctx' = "popped"
            /\ ctx_pops' = ctx_pops + 1
       ELSE UNCHANGED cudavars
    /\ temp_dir' = FALSE
    /\ temp_files' = {}
    /\ pc' = "returned"
    /\ UNCHANGED <<pvars, cvars, helpervars, runvars, started, given, fvars, idx, clips, exc, artifacts,
                   enginevars, countvars>>

\* One worker of either flavour on a shard of 1..MaxJobs jobs.
Init ==
    /\ PartIdle
    /\ CoIdle
    /\ HelpersIdle
    /\ RunIdle
    /\ \E fl \in {"process", "thread"}, rmf \in BOOLEAN, n \in 1..MaxJobs :
         WorkerInit(fl, rmf, [k \in 1..n |-> k],
                    IF fl = "process" THEN "start" ELSE "loop",
                    {}, DefaultMaxRetries)

Next ==
    \/ WorkerStart
    \/ LoopHead
    \/ FetchExitZero
    \/ FetchNonZero
    \/ FetchException
    \/ FetchExhausted
    \/ FetchFailed
    \/ FetchSucceeded
    \/ ManifestMissing
    \/ ManifestUnparsable
    \/ ManifestEmpty
    \/ ManifestRead
    \/ Segment
    \/ DeleteSource
    \/ ExceptClause
    \/ Finally

Spec == Init /\ [][Next]_vars

\* The worker keeps running: every call it makes returns or raises (the
\* fetch attempts are bounded by their timeout, the decoder's frames end).
SpecFair == Spec /\ WF_vars(Next)

\* The jobs the worker has left: each has reached its terminal state.
JobsLeft == 1..idx

\* The counters bumped for job j.
Counted(j) == SelectSeq(outcomes[j], LAMBDA x : x \in {"completed", "failed"})

\* The outcome of job j as process_worker accounts for it: Skipped is the
\* job that bumps neither counter (the worker keeps no counter for it).
Completed(j) == Counted(j) = <<"completed">>
Failed(j) == Counted(j) = <<"failed">>
Skipped(j) == Counted(j) = <<>>

NumSkipped == Cardinality({j \in JobsLeft : Skipped(j)})

\* C7 (on a file system where os.remove never fails, and with the file of
\* this fetch written to the directory): whenever fetch returns Success, the
\* file and id returned are those of the video this fetch created, never of
\* a file left in the temp directory by an earlier job.
C7_FetchReturnsOwnFile ==
    (~rm_may_fail /\ pc = "fetched" /\ success /\ UrlId \in temp_files)
        => video_path = UrlId

\* C8 (on a file system where os.remove never fails): in both flavours the
\* source file of a job whose fetch succeeded is gone when the job is left
\* as Completed, as Skipped for a missing or empty manifest, or as Failed by
\* an engine or segmenting error; and a job whose fetch failed deletes no
\* file.
C8_SourceDeleted ==
    /\ [][(/\ ~rm_may_fail
           /\ success
           /\ pc' = "loop"
           /\ \/ pc \in {"manifest", "delete"}
              \/ pc = "except" /\ exc \in {"EngineError", "AssertionError"})
          => video_path \notin temp_files']_vars
    /\ [][(pc = "fetched" /\ ~success) => temp_files' = temp_files]_vars

\* C9: when process_worker has gone through its shard, every job has exactly
\* one outcome: completed + skipped + failed = the shard size.
C9_OneOutcomePerJob ==
    (flavour = "process" /\ pc \in {"finally", "returned"} /\ idx = Len(urls))
        => /\ processed_count + NumSkipped + failed_count = Len(urls)
           /\ \A j \in JobsLeft : Completed(j) \/ Failed(j) \/ Skipped(j)

\* C10 (on a file system where os.remove never fails): a job whose fetch
\* succeeded and whose manifest is absent or empty ends Skipped, neither
\* Failed nor Completed, with its source deleted and no artifact written.
C10_NoManifestIsSkipped ==
    (~rm_may_fail /\ flavour = "process")
        => \A j \in JobsLeft :
             (\E n \in 1..Len(outcomes[j]) :
                 outcomes[j][n] \in {"warn_no_clip_file", "warn_clip_file_empty"})
               => /\ Skipped(j)
                  /\ j \notin temp_files
                  /\ artifacts[j] = {}

\* ------------------------------------------------------------ coordinator
\* main of download_and_process.py ("main"), main of
\* download_and_process_compatible.py ("main_compatible"), main_threaded
\* ("main_threaded") and main of multi_download.py ("multi_download"), each
\* with all its workers. A worker is followed through the phases of its
\* jobs only; what happens inside a phase is the single-worker model above.
\* Positions of main:
\*   "check_urls_file", "check_clip_dir"   the two os.path.exists checks
\*   "read"        reading the URL file
\*   "cuda_init"   main_threaded: the context and the shared engine
\*   "split"       inside split_urls / split_urls_file
\*   "launch"      the loop of process.start() / executor.submit()
\*   "join"        the loop of process.join() / future.result()
\*   "terminate"   the except KeyboardInterrupt clause
\*   "shutdown"    main_threaded: the executor's __exit__ with the interrupt pending
\*   "exit"        the process has ended with exit_code
\* Positions of a worker: "unstarted", "start", "loop", "fetch", "manifest",
\* "acquire" (waiting at `with thread_lock`), "call" (at the call of
\* process_one_video), "segmenting" (inside it, the decode session open),
\* "delete", "download" (download_worker's yt-dlp), "returned", "killed".
Progs == {"main", "main_compatible", "main_threaded", "multi_download"}

\* The workers are processes (multiprocessing.Process), not threads.
Forks(pr) == pr # "main_threaded"

\* multi_download has no clip directory argument.
ChecksClipDir(pr) == pr # "multi_download"

InitFailureAlwaysFallsBack(pr) == TRUE

\* download_and_process_compatible, lines 223-225: a failed CUDA
\* initialisation sets use_cuda = False and the worker goes on with FFmpeg;
\* download_and_process, lines 193-201: the worker returns.
InitFailureFallsBack(pr) == pr = "main_compatible"

LockAlwaysFree(l) == TRUE

\* threading.Lock: acquire succeeds when no thread holds it.
LockFree(l) == l = None

\* The positions in which a worker is in the middle of a job.
MidJob == {"fetch", "manifest", "acquire", "call", "segmenting", "delete",
           "download"}

\* The single-worker variables: no coordinator action touches them.
CoRest == <<given, fvars, wvars, helpervars, runvars>>

\* The workers started and still running.
Alive == {w \in 1..launched : w_pc[w] \notin {"returned", "killed"}}

InitCo ==
    /\ prog \in Progs
    /\ urls_file_exists \in BOOLEAN
    /\ clip_dir_exists \in (IF ChecksClipDir(prog) THEN BOOLEAN ELSE {TRUE})
    /\ co_pc = "check_urls_file"
    /\ exit_code = Running
    /\ co_ctx = "none"
    /\ co_pops = 0
    /\ NoWorkerStarted
    /\ p_urls = <<>>
    /\ num_workers \in (-1)..MaxWorkers
    /\ urls_per_worker = None
    /\ p_i = 0
    /\ split = <<>>
    /\ p_pc = "idle"
    /\ launched = 0
    /\ WorkerIdle
    /\ HelpersIdle
    /\ RunIdle

\* sys.exit(code), or the end of the interpreter.
Exit(code) ==
    /\ co_pc' = "exit"
    /\ exit_code' = code

\* Lines 433-435 (multi_download 161-163).
CoCheckUrlsFile ==
    /\ co_pc = "check_urls_file"
    /\ IF ~urls_file_exists
       THEN Exit(1)
       ELSE /\ co_pc' = IF ChecksClipDir(prog) THEN "check_clip_dir" ELSE "read"
            /\ UNCHANGED exit_code
    /\ UNCHANGED <<coin, coctx, intvars, wkvars, pvars, CoRest>>

\* Lines 437-439.
CoCheckClipDir ==
    /\ co_pc = "check_clip_dir"
    /\ IF ~clip_dir_exists
       THEN Exit(1)
       ELSE /\ co_pc' = "read"
            /\ UNCHANGED exit_code
    /\ UNCHANGED <<coin, coctx, intvars, wkvars, pvars, CoRest>>

\* Lines 445-453 (multi_download 33-34): the non-blank lines of the URL
\* file; then split_urls is called, in main_threaded after the CUDA set-up.
CoRead ==
    /\ co_pc = "read"
    /\ \E n \in 0..MaxBatch : p_urls' = [k \in 1..n |-> k]
    /\ IF prog = "main_threaded"
       THEN /\ co_pc' = "cuda_init"
            /\ UNCHANGED p_pc
       ELSE /\ co_pc' = "split"
            /\ p_pc' = "split_urls"
    /\ UNCHANGED <<num_workers, urls_per_worker, p_i, split, launched>>
    /\ UNCHANGED <<coin, exit_code, coctx, intvars, wkvars, CoRest>>

\* main_threaded, lines 561-573: cuda.init, make_context, the streams, the
\* decoder and the encoder. Nothing catches an exception raised here.
CoCudaInit ==
    /\ co_pc = "cuda_init"
    /\ \E init \in {"ok", "no_context", "after_context"} :
         CASE init = "ok" ->
                /\ co_ctx' = "active"
                /\ co_pc' = "split"
                /\ p_pc' = "split_urls"
                /\ UNCHANGED exit_code
           [] init = "no_context" ->
                /\ Exit(1)
                /\ UNCHANGED <<co_ctx, p_pc>>
           [] init = "after_context" ->
                /\ co_ctx' = "active"
                /\ Exit(1)
                /\ UNCHANGED p_pc
    /\ UNCHANGED <<p_urls, num_workers, urls_per_worker, p_i, split, launched>>
    /\ UNCHANGED <<coin, co_pops, intvars, wkvars, CoRest>>

\* split_urls raised ZeroDivisionError (line 378): main has no handler.
CoSplitRaised ==
    /\ co_pc = "split"
    /\ p_pc = "ZeroDivisionError"
    /\ Exit(1)
    /\ UNCHANGED <<coin, coctx, intvars, wkvars, pvars, CoRest>>

\* split_urls returned. multi_download exits when no split file was made
\* (lines 181-183); ThreadPoolExecutor(max_workers=args.workers) raises
\* ValueError for a worker count <= 0 (line 587).
CoSplitReturned ==
    /\ co_pc = "split"
    /\ p_pc = "return"
    /\ IF \/ prog = "multi_download" /\ split = <<>>
          \/ prog = "main_threaded" /\ num_workers <= 0
       THEN Exit(1)
       ELSE /\ co_pc' = "launch"
            /\ UNCHANGED exit_code
    /\ UNCHANGED <<coin, coctx, intvars, wkvars, pvars, CoRest>>

\* Lines 460-483 / 589-601: one process.start() or executor.submit() per
\* shard; the pool has a thread for every shard.
CoLaunch ==
    /\ co_pc = "launch"
    /\ IF launched < Len(split)
       THEN /\ launched' = launched + 1
            /\ w_pc' = [w_pc EXCEPT ![launched + 1] =
                           IF Forks(prog) THEN "start" ELSE "loop"]
            /\ w_init' = [w_init EXCEPT ![launched + 1] =
                             IF Forks(prog) THEN "pending" ELSE "ok"]
            /\ UNCHANGED co_pc
       ELSE /\ co_pc' = "join"
            /\ UNCHANGED <<launched, w_pc, w_init>>
    /\ UNCHANGED <<p_urls, num_workers, urls_per_worker, p_i, split, p_pc>>
    /\ UNCHANGED <<coin, exit_code, coctx, intvars, w_idx, lock, inside,
                   handled, killed_in, CoRest>>

\* Lines 486-490 / 604-608: every worker has been joined; main_threaded
\* pops its context; the process ends.
CoJoin ==
    /\ co_pc = "join"
    /\ Alive = {}
    /\ Exit(0)
    /\ IF prog = "main_threaded"
       THEN /\ co_ctx' = "popped"
            /\ co_pops' = co_pops + 1
       ELSE UNCHANGED coctx
    /\ UNCHANGED <<coin, intvars, wkvars, pvars, CoRest>>

\* KeyboardInterrupt is raised in main while it starts or joins workers.
\* main and multi_download catch it (lines 492-499); main_threaded does not,
\* and the `with ThreadPoolExecutor` block waits for its threads.
CoInterrupt ==
    /\ co_pc \in {"launch", "join"}
    /\ ~interrupted
    /\ interrupted' = TRUE
    /\ inflight' = {w \in Workers : w_pc[w] \in MidJob}
    /\ co_pc' = IF Forks(prog) THEN "terminate" ELSE "shutdown"
    /\ UNCHANGED <<coin, exit_code, coctx, wkvars, pvars, CoRest>>

\* Lines 494-499: `for process in processes`: a process that is alive gets
\* terminate() (SIGTERM, for which the worker has no handler), is joined
\* and, if still alive, killed. After the loop main ends.
CoTerminate ==
    /\ co_pc = "terminate"
    /\ IF Alive = {}
       THEN /\ Exit(0)
            /\ UNCHANGED <<w_pc, killed_in>>
       ELSE LET w == CHOOSE v \in Alive : \A u \in Alive : v <= u
            IN  /\ w_pc' = [w_pc EXCEPT ![w] = "killed"]
                /\ killed_in' = [killed_in EXCEPT ![w] = w_pc[w]]
                /\ UNCHANGED <<co_pc, exit_code>>
    /\ UNCHANGED <<coin, coctx, intvars, w_idx, w_init, lock, inside,
                   handled, pvars, CoRest>>

\* main_threaded: the executor's shutdown(wait=True) has returned, the
\* KeyboardInterrupt leaves main: line 608 is not reached and the
\* interpreter ends with the status of an unhandled KeyboardInterrupt.
CoShutdown ==
    /\ co_pc = "shutdown"
    /\ Alive = {}
    /\ Exit(130)
    /\ UNCHANGED <<coin, coctx, intvars, wkvars, pvars, CoRest>>

\* The shard worker w was started with.
Shard(w) == split[w]

WorkerRest == <<covars, pvars, CoRest>>

\* The end of the loop body, by `continue`, fall-through or the except
\* clause: worker w leaves its job.
LeaveJob(w) ==
    /\ w_pc' = [w_pc EXCEPT ![w] = "loop"]
    /\ w_idx' = [w_idx EXCEPT ![w] = @ + 1]

GoTo(w, at) ==
    /\ w_pc' = [w_pc EXCEPT ![w] = at]
    /\ UNCHANGED w_idx

ReleaseNever(w) == lock' = lock

\* The end of `with thread_lock`, by return or by exception.
Release(w) == lock' = IF lock = w THEN None ELSE lock

\* process_worker, lines 149-201 (compatible 191-228): the start delay and
\* the engine initialisation; download_worker, lines 74-97.
WStart(w) ==
    /\ w_pc[w] = "start"
    /\ IF prog = "multi_download"
       THEN /\ GoTo(w, "download")
            /\ UNCHANGED w_init
       ELSE \E ok \in BOOLEAN :
              IF ok
              THEN /\ w_init' = [w_init EXCEPT ![w] = "ok"]
                   /\ GoTo(w, "loop")
              ELSE /\ w_init' = [w_init EXCEPT ![w] = "failed"]
                   /\ GoTo(w, IF InitFailureFallsBack(prog)
                              THEN "loop" ELSE "returned")
    /\ UNCHANGED <<lock, inside, handled, killed_in, WorkerRest>>

\* Line 207 / 321: the next url of the worker's own shard, or the return.
WLoop(w) ==
    /\ w_pc[w] = "loop"
    /\ IF w_idx[w] < Len(Shard(w))
       THEN /\ GoTo(w, "fetch")
            /\ handled' = handled \cup {<<w, Shard(w)[w_idx[w] + 1]>>}
       ELSE /\ GoTo(w, "returned")
            /\ UNCHANGED handled
    /\ UNCHANGED <<w_init, lock, inside, killed_in, WorkerRest>>

\* Lines 212-219 / 329-332: download_single_video returns.
WFetch(w) ==
    /\ w_pc[w] = "fetch"
    /\ \E ok \in BOOLEAN :
         IF ok THEN GoTo(w, "manifest") ELSE LeaveJob(w)
    /\ UNCHANGED <<w_init, lock, inside, handled, killed_in,
                   WorkerRest>>

\* Lines 224-242 / 335-349: the clip file is read; the job is left when it
\* is missing, empty or unparsable. A thread goes on to `with thread_lock`.
WManifest(w) ==
    /\ w_pc[w] = "manifest"
    /\ \E has_clips \in BOOLEAN :
         IF has_clips
         THEN GoTo(w, IF Forks(prog) THEN "call" ELSE "acquire")
         ELSE LeaveJob(w)
    /\ UNCHANGED <<w_init, lock, inside, handled, killed_in,
                   WorkerRest>>

\* Line 352: thread_lock.__enter__.
WAcquire(w) ==
    /\ w_pc[w] = "acquire"
    /\ LockFree(lock)
    /\ lock' = w
    /\ GoTo(w, "call")
    /\ UNCHANGED <<w_init, inside, handled, killed_in, WorkerRest>>

\* Lines 250-258 / 358-366 and line 49: process_one_video is called and
\* opens the decode session, or decoder.initialize raises.
WOpen(w) ==
    /\ w_pc[w] = "call"
    /\ \E ok \in BOOLEAN :
         IF ok
         THEN /\ GoTo(w, "segmenting")
              /\ inside' = inside \cup {w}
              /\ UNCHANGED lock
         ELSE /\ LeaveJob(w)
              /\ Release(w)
              /\ UNCHANGED inside
    /\ UNCHANGED <<w_init, handled, killed_in, WorkerRest>>

\* Lines 51-78: the frame loop ends, by return or by exception; the with
\* block of the thread is left either way.
WSegmentEnd(w) ==
    /\ w_pc[w] = "segmenting"
    /\ inside' = inside \ {w}
    /\ Release(w)
    /\ \E ok \in BOOLEAN :
         IF ok THEN GoTo(w, "delete") ELSE LeaveJob(w)
    /\ UNCHANGED <<w_init, handled, killed_in, WorkerRest>>

\* Line 266 / 369: os.remove, then the end of the loop body.
WDelete(w) ==
    /\ w_pc[w] = "delete"
    /\ LeaveJob(w)
    /\ UNCHANGED <<w_init, lock, inside, handled, killed_in,
                   WorkerRest>>

\* multi_download.download_worker, lines 103-125: yt-dlp on the split file.
WDownload(w) ==
    /\ w_pc[w] = "download"
    /\ GoTo(w, "returned")
    /\ UNCHANGED <<w_init, lock, inside, handled, killed_in,
                   WorkerRest>>

NextCo ==
    \/ CoCheckUrlsFile
    \/ CoCheckClipDir
    \/ CoRead
    \/ CoCudaInit
    \/ SplitBegin
    \/ SplitIter
    \/ SplitExhausted
    \/ CoSplitRaised
    \/ CoSplitReturned
    \/ CoLaunch
    \/ CoJoin
    \/ CoInterrupt
    \/ CoTerminate
    \/ CoShutdown
    \/ \E w \in Workers :
         \/ WStart(w)
         \/ WLoop(w)
         \/ WFetch(w)
         \/ WManifest(w)
         \/ WAcquire(w)
         \/ WOpen(w)
         \/ WSegmentEnd(w)
         \/ WDelete(w)
         \/ WDownload(w)

SpecCo == InitCo /\ [][NextCo]_vars

\* The steps of main itself, KeyboardInterrupt apart.
CoStep ==
    \/ CoCheckUrlsFile
    \/ CoCheckClipDir
    \/ CoRead
    \/ CoCudaInit
    \/ SplitBegin
    \/ SplitIter
    \/ SplitExhausted
    \/ CoSplitRaised
    \/ CoSplitReturned
    \/ CoLaunch
    \/ CoJoin
    \/ CoTerminate
    \/ CoShutdown

\* The steps of worker w.
WStep(w) ==
    \/ WStart(w)
    \/ WLoop(w)
    \/ WFetch(w)
    \/ WManifest(w)
    \/ WAcquire(w)
    \/ WOpen(w)
    \/ WSegmentEnd(w)
    \/ WDelete(w)
    \/ WDownload(w)

\* main_threaded alone, with its threads.
InitThreaded == InitCo /\ prog = "main_threaded"

NextThreaded ==
    \/ CoCheckUrlsFile
    \/ CoCheckClipDir
    \/ CoRead
    \/ CoCudaInit
    \/ SplitBegin
    \/ SplitIter
    \/ SplitExhausted
    \/ CoSplitRaised
    \/ CoSplitReturned
    \/ CoLaunch
    \/ CoJoin
    \/ CoInterrupt
    \/ CoShutdown
    \/ \E w \in Workers :
         \/ WLoop(w)
         \/ WFetch(w)
         \/ WManifest(w)
         \/ WAcquire(w)
         \/ WOpen(w)
         \/ WSegmentEnd(w)
         \/ WDelete(w)

\* A fair scheduler and external calls that return: main and every thread
\* take a step when one stays possible. Nothing makes a KeyboardInterrupt
\* happen, and threading.Lock promises no order among the waiting threads.
SpecThreadedFair ==
    /\ InitThreaded
    /\ [][NextThreaded]_vars
    /\ WF_vars(CoStep)
    /\ \A w \in Workers : WF_vars(WStep(w))

\* ------------------------------------------- process_one_video on its own
\* process_one_video called by a worker of either flavour on the source of
\* its one job, for every clip list of the manifest format.
InitSeg ==
    /\ PartIdle
    /\ CoIdle
    /\ HelpersIdle
    /\ RunIdle
    /\ \E fl \in {"process", "thread"}, cl \in ManifestClipLists :
         WorkerAt(fl, FALSE, <<1>>, "segment", {1}, DefaultMaxRetries, 1, cl)

NextSeg == Segment \/ DeleteSource \/ ExceptClause

SpecSeg == InitSeg /\ [][NextSeg]_vars

\* process_one_video has been called on the current job and has returned or
\* raised.
Segmented == pc \in {"delete", "except"}

\* The clip list bound satisfies the manifest format for the video decoded.
ClipsFitVideo ==
    /\ clips \in ManifestClipLists
    /\ \A n \in 1..Len(clips) : clips[n][2] <= nframes

\* The frame indexes that lie in some clip range [start, end).
FramesInClips ==
    {f \in 0..MaxFrames : \E n \in 1..Len(clips) :
        clips[n][1] <= f /\ f < clips[n][2]}

ClipSet == {clips[n] : n \in 1..Len(clips)}

\* C11: a failed delete of the source leaves the job's outcome as it was: in
\* the step that handles the OSError of os.remove, a job already counted
\* Completed stays Completed only, and a job with an empty manifest stays
\* Skipped.
C11_DeleteFailureKeepsOutcome ==
    [][(flavour = "process" /\ pc = "except" /\ exc = "OSError")
          => LET j == Job
                 had(x) == \E n \in 1..Len(outcomes[j]) : outcomes[j][n] = x
                 counted == SelectSeq(outcomes'[j],
                                LAMBDA x : x \in {"completed", "failed"})
             IN  /\ had("completed") => counted = <<"completed">>
                 /\ had("warn_clip_file_empty") => counted = <<>>]_vars

\* C12: for a clip list of the manifest format whose ranges end within the
\* decoded frames, and an engine that raises nothing, process_one_video
\* returns normally, has written exactly one artifact per clip range, named
\* by its (start, end), and has fed the encoder exactly the frames inside
\* the ranges.
C12_SegmentsExact ==
    (Segmented /\ ClipsFitVideo /\ exc # "EngineError")
        => /\ pc = "delete"
           /\ artifacts[video_path] = ClipSet
           /\ fed = FramesInClips

\* C13: a decode session opened for a job is closed before the worker moves
\* to the next job, however segmenting ended.
C13_SessionClosedPerJob ==
    pc = "loop" => ~decoder_open

\* The worker has returned having gone through its whole shard.
ShardDone ==
    /\ pc = "returned"
    /\ idx = Len(urls)
    /\ Len(started) = Len(urls)

\* C16: no failure of a job leaves the job loop: a worker whose engine
\* initialisation succeeded never has an exception escape the fetch, and it
\* goes on to enter every job of its shard and returns at the end of it.
C16_FailuresContained ==
    /\ [](pc # "fetch_raised")
    /\ (cuda_ctx = "active") ~> ShardDone

C16_Witness ==
    /\ ShardDone /\ flavour = "process" /\ Len(urls) = 2
    /\ failed_count = 2 /\ processed_count = 0

\* C18: the jobs of a shard are entered in input order, none twice, and a
\* job is entered only when every earlier job of the shard has been left.
C18_InOrderOnce ==
    /\ started = [k \in 1..Len(started) |-> k]
    /\ Len(started) \in {idx, idx + 1}
    /\ pc \in {"start", "loop", "finally", "returned"} => Len(started) = idx

C18_Witness ==
    /\ pc = "fetch" /\ idx = 1 /\ started = <<1, 2>>
    /\ Len(outcomes[1]) > 0

\* The urls of the shard worker w was started with.
ShardUrls(w) == {Shard(w)[k] : k \in 1..Len(Shard(w))}

\* The engine initialisation of worker w failed.
InitFailed(w) == w_init[w] = "failed"

\* No worker has entered a job of the shard of worker w.
ShardUntouched(w) ==
    /\ w_idx[w] = 0
    /\ \A v \in Workers : \A u \in ShardUrls(w) : <<v, u>> \notin handled

\* C14: however main_threaded ends, a context it created has been released
\* exactly once, and a context never created is never released.
C14_ContextReleasedOnce ==
    /\ co_pops = (IF co_ctx = "popped" THEN 1 ELSE 0)
    /\ co_pc = "exit" => co_ctx # "active"

\* C15 as stated: in every program a worker whose engine initialisation
\* failed has returned without entering a job, and no worker has entered a
\* job of its shard.
C15_InitFailureAbortsShard ==
    \A w \in Workers :
        InitFailed(w) => (w_pc[w] = "returned" /\ ShardUntouched(w))

\* C15 amended: that holds for process_worker of download_and_process; the
\* worker of download_and_process_compatible goes on with the FFmpeg
\* fallback and returns only at the end of its shard; in every program a
\* job is entered by the worker of its own shard only.
C15_InitFailureByProgram ==
    /\ \A w \in Workers :
          (InitFailed(w) /\ prog = "main")
              => (w_pc[w] = "returned" /\ ShardUntouched(w))
    /\ \A w \in Workers :
          (InitFailed(w) /\ prog = "main_compatible" /\ w_pc[w] = "returned")
              => w_idx[w] = Len(Shard(w))
    /\ \A h \in handled : h[2] \in ShardUrls(h[1])

C15_Witness ==
    /\ prog = "main" /\ launched = 2
    /\ InitFailed(1) /\ w_pc[1] = "returned"
    /\ w_init[2] = "ok" /\ w_pc[2] = "segmenting"

\* C17: in main_threaded a thread holds the lock exactly while it is at or
\* inside the call of process_one_video: it has it before the decode
\* session is opened, keeps it until the call ends by return or exception,
\* and never holds it while fetching, reading a manifest or deleting; so at
\* most one thread is inside the segmenting phase.
C17_LockExclusion ==
    prog = "main_threaded"
        => /\ Cardinality(inside) <= 1
           /\ inside = {w \in Workers : w_pc[w] = "segmenting"}
           /\ \A w \in Workers :
                w_pc[w] \in {"call", "segmenting"} <=> lock = w

C17_Witness ==
    /\ prog = "main_threaded"
    /\ w_pc[1] = "segmenting" /\ lock = 1
    /\ w_pc[2] = "acquire" /\ w_idx[2] = 0

\* C19 (main of download_and_process): after an interrupt no worker that
\* was mid-job at that moment is terminated inside a job.
C19_InterruptDrains ==
    (prog = "main" /\ interrupted)
        => \A w \in inflight : killed_in[w] \notin MidJob

\* C20 (main of download_and_process and of multi_download): the process
\* ends with a non-zero status, no worker started, when the URL file or the
\* clip directory is missing, and with status zero in every other run.
C20_ExitCodes ==
    (prog \in {"main", "multi_download"} /\ co_pc = "exit")
        => IF ~urls_file_exists \/ ~clip_dir_exists
           THEN exit_code # 0 /\ launched = 0
           ELSE exit_code = 0

\* C23: within one fetch, every failed attempt (non-zero exit, timeout or
\* exception of the subprocess) that another attempt follows is followed by
\* the backoff delay, and the last attempt is followed by none.
C23_BackoffBetweenAttempts ==
    \A n \in 1..Len(hist) :
        hist[n] \in FailureEntries
            => ((hist[n] = "nonzero_sleep") <=> (n < max_retries))

\* C28: when the downloader exits with 0 and no video file is found, fetch
\* returns Failure on that very attempt: no attempt and no delay follows it,
\* whatever number of attempts remains.
C28_NoFileIsImmediateFailure ==
    \A n \in 1..Len(hist) :
        hist[n] = "exit0_nofile"
            => /\ n = Len(hist)
               /\ pc = "fetched"
               /\ ~success
               /\ video_path = None

C28_Witness ==
    /\ pc = "fetched" /\ ~success
    /\ max_retries = 3
    /\ hist = <<"nonzero_sleep", "exit0_nofile">>

\* C24 (on a file system where os.remove never fails): for every job whose
\* fetch succeeded, the source file is gone by the time the job's outcome is
\* recorded: in the step that updates the completed or the failed counter,
\* the file has been deleted.
C24_DeleteBeforeRecord ==
    [][(/\ flavour = "process"
        /\ ~rm_may_fail
        /\ pc # "fetched"
        /\ <<processed_count, failed_count>>' # <<processed_count, failed_count>>)
          => video_path \notin temp_files']_vars

\* C25: on one engine handle an encode segment is never begun while an
\* earlier one is still open: whenever a call of process_one_video feeds a
\* frame (encoder.initialize has been called in it), the encoder was not
\* armed when the call began.
C25_OneSegmentOpen ==
    [][(pc = "segment" /\ fed' # {}) => ~encoder_armed]_vars

\* C26 (on a file system where os.remove never fails): the temp directory of
\* a worker of either flavour never holds more than one source file, and
\* holds none when the worker begins the fetch of a job.
C26_OneSourcePerTempDir ==
    ~rm_may_fail
        => /\ Cardinality(temp_files) <= 1
           /\ (pc = "fetch" /\ hist = <<>>) => temp_files = {}

\* C29: whenever process_worker has returned, by whatever path, the temp
\* directory it made at its start has been removed.
C29_TempDirRemoved ==
    (flavour = "process" /\ pc = "returned") => ~temp_dir

\* ---------------------------------------------------------------- cleanup
\* The cleanup of the source file in the except clause of process_worker
\* (lines 277-281) and cleanup_temp_files of multi_download (lines 128-135),
\* each run on its own, MaxCleanupRuns times in a row, on every content of
\* the directory. exc is the exception that left the last run, or "none".

ExceptReraises(raised) == raised

\* `except: pass` (line 280) and `except Exception as e: print(...)`
\* (multi_download, line 134): what os.remove raised does not leave the
\* cleanup.
ExceptPass(raised) == "none"

\* os.remove(path) with the files of disk present: the pairs
\* <<files left, exception raised>> it can end with.
Remove(disk, path) ==
    IF path \notin disk
    THEN {<<disk, "FileNotFoundError">>}
    ELSE {<<disk \ {path}, "none">>}
            \cup (IF rm_may_fail THEN {<<disk, "OSError">>} ELSE {})

\* Lines 277-281: if "video_path" in locals() and os.path.exists(video_path):
\* os.remove(video_path), inside try / except: pass.
CleanupSource ==
    /\ pc = "except"
    /\ cleanup_runs < MaxCleanupRuns
    /\ cleanup_runs' = cleanup_runs + 1
    /\ IF video_path # None /\ video_path \in temp_files
       THEN \E r \in Remove(temp_files, video_path) :
              /\ temp_files' = r[1]
              /\ exc' = ExceptPass(r[2])
       ELSE /\ exc' = "none"
            /\ UNCHANGED temp_files
    /\ UNCHANGED <<pvars, cvars, given, fvars, idx, started, pc, temp_dir,
                   clips, artifacts, cudavars, enginevars, countvars,
                   temp_splits, ff_i, runvars>>

\* split_files, as split_urls_file returned it: one file per shard.
SplitFiles == [k \in 1..Len(split) |-> k]

\* cleanup_temp_files(split_files) on the directory content disk: the pairs
\* <<files left, exception that left the function>> it can end with.
RECURSIVE cleanup_temp_files(_, _)
cleanup_temp_files(split_files, disk) ==
    IF split_files = <<>>
    THEN {<<disk, "none">>}
    ELSE UNION {IF ExceptPass(r[2]) = "none"
                THEN cleanup_temp_files(Tail(split_files), r[1])
                ELSE {<<r[1], ExceptPass(r[2])>>} :
                    r \in Remove(disk, Head(split_files))}

\* multi_download.main, lines 221-225: the finally clause calls
\* cleanup_temp_files(split_files).
CleanupTempFiles ==
    /\ p_pc = "finally"
    /\ cleanup_runs < MaxCleanupRuns
    /\ cleanup_runs' = cleanup_runs + 1
    /\ \E r \in cleanup_temp_files(SplitFiles, temp_splits) :
         /\ temp_splits' = r[1]
         /\ exc' = r[2]
    /\ UNCHANGED <<pvars, cvars, given, fvars, idx, started, pc, temp_dir,
                   temp_files, clips, artifacts, cudavars, enginevars,
                   countvars, ff_i, runvars>>

\* Either the worker is in its except clause, with any files in its temp
\* directory and video_path bound by the fetch, or multi_download.main is in
\* its finally clause, split_urls_file having returned the files of a batch
\* of m urls for w workers, with any of them on disk.
InitClean ==
    /\ CoIdle
    /\ RunIdle
    /\ cleanup_runs = 0
    /\ ff_i = 0
    /\ \/ /\ PartIdle
          /\ temp_splits = {}
          /\ \E rmf \in BOOLEAN, files \in SUBSET Ids, path \in Ids :
                WorkerAt("process", rmf, <<1>>, "except", files,
                         DefaultMaxRetries, path, <<>>)
       \/ /\ \E m \in 1..MaxBatch, w \in 1..MaxWorkers :
                LET all == [k \in 1..m |-> k]
                    per == UrlsPerWorker(m, w)
                    n == CeilDiv(m, per)
                IN  /\ p_urls = all
                    /\ num_workers = w
                    /\ urls_per_worker = per
                    /\ p_i = n
                    /\ split = [i \in 1..n |-> WorkerUrls(all, i - 1, per)]
                    /\ launched = n
                    /\ temp_splits \in SUBSET (1..n)
          /\ p_pc = "finally"
          /\ \E rmf \in BOOLEAN :
                WorkerInit("process", rmf, <<>>, "idle", {}, DefaultMaxRetries)

NextClean == CleanupSource \/ CleanupTempFiles

SpecClean == InitClean /\ [][NextClean]_vars

\* The files the cleanup is run for are gone already.
TargetsGone ==
    IF pc = "except"
    THEN video_path \notin temp_files
    ELSE \A k \in 1..Len(SplitFiles) : SplitFiles[k] \notin temp_splits

FfmpegRuns == {"ok", "CalledProcessError", "FileNotFoundError"}

\* process_with_ffmpeg, lines 48-78: one iteration of the loop over clips.
\* Only CalledProcessError is caught (line 77).
FfmpegClip ==
    /\ pc = "ffmpeg"
    /\ ff_i < Len(clips)
    /\ \E run \in FfmpegRuns :
         CASE run = "ok" ->
                /\ artifacts' = [artifacts EXCEPT ![video_path] =
                                    @ \cup {ClipAt(clips, ff_i)}]
                /\ ff_i' = ff_i + 1
                /\ UNCHANGED <<pc, exc, idx>>
           [] run = "CalledProcessError" ->
                /\ ff_i' = ff_i + 1
                /\ UNCHANGED <<artifacts, pc, exc, idx>>
           [] run = "FileNotFoundError" ->
                /\ Raise("OSError")
                /\ UNCHANGED <<artifacts, ff_i>>
    /\ UNCHANGED <<pvars, cvars, given, fvars, started, temp_dir, temp_files,
                   clips, cudavars, enginevars, countvars, temp_splits,
                   cleanup_runs, runvars>>

\* Line 80 and lines 292-295: process_with_ffmpeg returns processed_files;
\* the worker logs their number and executes processed_count += 1.
FfmpegReturn ==
    /\ pc = "ffmpeg"
    /\ ff_i = Len(clips)
    /\ processed_count' = processed_count + 1
    /\ outcomes' = Logged(<<"completed">>)
    /\ pc' = "delete"
    /\ UNCHANGED <<pvars, cvars, given, fvars, idx, started, temp_dir,
                   temp_files, clips, exc, artifacts, cudavars, enginevars,
                   failed_count, helpervars, runvars>>

\* The worker has fetched the source of its one job and read a manifest of
\* the manifest format with at least one clip range.
InitCompat ==
    /\ PartIdle
    /\ CoIdle
    /\ HelpersIdle
    /\ RunIdle
    /\ \E use_cuda \in BOOLEAN, cl \in ManifestClipLists \ {<<>>} :
         WorkerAt("process", FALSE, <<1>>,
                  IF use_cuda THEN "segment" ELSE "ffmpeg",
                  {1}, DefaultMaxRetries, 1, cl)

NextCompat ==
    \/ Segment
    \/ FfmpegClip
    \/ FfmpegReturn
    \/ DeleteSource
    \/ ExceptClause

SpecCompat == InitCompat /\ [][NextCompat]_vars

\* C30: a job is counted as completed only if as many artifacts were
\* produced for it as its manifest has clip ranges, on the hardware path and
\* on the FFmpeg path alike.
C30_CompletedHasAllArtifacts ==
    (pc = "delete" /\ Completed(Job))
        => Cardinality(artifacts[video_path]) = Len(clips)

\* The worker has gone through its whole shard and returned.
Finished(w) == w_pc[w] = "returned" /\ w_idx[w] = Len(Shard(w))

\* C27: in main_threaded, under a fair scheduler and with external calls
\* that return, a thread waiting for the engine lock gets it, every thread
\* reaches the end of its shard, and main, unless interrupted, then pops the
\* context and ends.
C27_ThreadedBatchTerminates ==
    /\ \A w \in Workers :
          (prog = "main_threaded" /\ w_pc[w] = "acquire") ~> (lock = w)
    /\ \A w \in Workers :
          (prog = "main_threaded" /\ w_pc[w] = "loop") ~> Finished(w)
    /\ (prog = "main_threaded" /\ co_pc = "launch")
          ~> \/ interrupted
             \/ /\ co_pc = "exit"
                /\ co_ctx = "popped"
                /\ \A w \in 1..launched : Finished(w)

C27_Witness ==
    /\ prog = "main_threaded" /\ co_pc = "exit" /\ ~interrupted
    /\ co_ctx = "popped" /\ launched = 2
    /\ Finished(1) /\ Finished(2)
    /\ Cardinality(handled) = 3

\* ------------------------------------------------- main with its workers
\* main of download_and_process.py from its start to its end, every worker
\* process followed through the files in its temp directory, its counters
\* and the artifacts it writes. The workers are separate processes: each has
\* its own temp directory, engine and counters, and they share the output
\* directory only. os.remove does not fail here. A worker's video_path and
\* clips are forgotten when it leaves a job: download_single_video rebinds
\* video_path before anything in the next job can read it.

BumpNone(f, w) == f

\* processed_count += 1 / failed_count += 1 in worker w.
Bump(f, w) == [f EXCEPT ![w] = @ + 1]

RunRest == <<covars, pvars, given, fvars, wvars, helpervars>>

\* The url worker w is at.
RunUrl(w) == Shard(w)[w_idx[w] + 1]

\* os.remove(video_path) in worker w.
RemoveSource(w) == r_temp' = [r_temp EXCEPT ![w] = @ \ {r_video[w]}]

\* Worker w leaves its job.
RunLeave(w) ==
    /\ LeaveJob(w)
    /\ r_video' = [r_video EXCEPT ![w] = None]
    /\ r_clips' = [r_clips EXCEPT ![w] = <<>>]

\* Lines 272-282: the except clause of the job.
RunExcept(w) ==
    /\ RemoveSource(w)
    /\ r_fail' = Bump(r_fail, w)
    /\ RunLeave(w)
    /\ all_ok' = FALSE

\* Lines 212-221: download_single_video returns Failure, or Success with
\* the first .mp4 of the temp directory.
RFetch(w) ==
    /\ w_pc[w] = "fetch"
    /\ \E ok \in BOOLEAN :
         IF ok
         THEN LET files == r_temp[w] \cup {RunUrl(w)}
              IN  /\ r_temp' = [r_temp EXCEPT ![w] = files]
                  /\ \E f \in FirstListed(files) :
                        r_video' = [r_video EXCEPT ![w] = f]
                  /\ GoTo(w, "manifest")
                  /\ UNCHANGED <<r_clips, r_fail, all_ok>>
         ELSE /\ r_fail' = Bump(r_fail, w)
              /\ RunLeave(w)
              /\ all_ok' = FALSE
              /\ UNCHANGED r_temp
    /\ UNCHANGED <<r_proc, out_files>>
    /\ UNCHANGED <<w_init, lock, inside, handled, killed_in, RunRest>>

\* Lines 224-242: the clip file is missing, has a line int() rejects, is
\* empty, or holds clips.
RManifest(w) ==
    /\ w_pc[w] = "manifest"
    /\ \E file \in {"missing", "unparsable", "read"}, cl \in ClipLists :
         /\ file # "read" => cl = <<>>
         /\ CASE file = "missing" ->
                  /\ RemoveSource(w)
                  /\ r_fail' = Bump(r_fail, w)
                  /\ RunLeave(w)
                  /\ all_ok' = FALSE
             [] file = "unparsable" ->
                  RunExcept(w)
             [] file = "read" /\ cl = <<>> ->
                  /\ RemoveSource(w)
                  /\ RunLeave(w)
                  /\ all_ok' = FALSE
                  /\ UNCHANGED r_fail
             [] file = "read" /\ cl # <<>> ->
                  /\ r_clips' = [r_clips EXCEPT ![w] = cl]
                  /\ GoTo(w, "call")
                  /\ all_ok' = (all_ok /\ cl = << <<0, 2>> >>)
                  /\ UNCHANGED <<r_temp, r_video, r_fail>>
    /\ UNCHANGED <<r_proc, out_files>>
    /\ UNCHANGED <<w_init, lock, inside, handled, killed_in, RunRest>>

\* Lines 250-263: process_one_video, then processed_count += 1. What the
\* call writes and raises does not depend on the sessions earlier jobs left
\* open.
RProcess(w) ==
    /\ w_pc[w] = "call"
    /\ \E nf \in FrameCounts, fault \in Faults :
         LET r == process_one_video(r_clips[w], nf, fault, FALSE, FALSE)
         IN  /\ out_files' = [out_files EXCEPT ![r_video[w]] =
                                 @ \cup {r.files[n] : n \in 1..Len(r.files)}]
             /\ IF r.raised # "none"
                THEN /\ RunExcept(w)
                     /\ UNCHANGED r_proc
                ELSE /\ r_proc' = Bump(r_proc, w)
                     /\ GoTo(w, "delete")
                     /\ UNCHANGED <<r_temp, r_video, r_clips, r_fail, all_ok>>
    /\ UNCHANGED <<w_init, lock, inside, handled, killed_in, RunRest>>

\* Line 266: os.remove(video_path), then the end of the loop body.
RDelete(w) ==
    /\ w_pc[w] = "delete"
    /\ RemoveSource(w)
    /\ RunLeave(w)
    /\ UNCHANGED <<r_proc, r_fail, out_files, all_ok>>
    /\ UNCHANGED <<w_init, lock, inside, handled, killed_in, RunRest>>

InitRun == InitCo /\ prog = "main"

NextRun ==
    \/ CoCheckUrlsFile
    \/ CoCheckClipDir
    \/ CoRead
    \/ SplitBegin
    \/ SplitIter
    \/ SplitExhausted
    \/ CoSplitRaised
    \/ CoSplitReturned
    \/ CoLaunch
    \/ CoJoin
    \/ \E w \in Workers :
         \/ WStart(w)
         \/ WLoop(w)
         \/ RFetch(w)
         \/ RManifest(w)
         \/ RProcess(w)
         \/ RDelete(w)

SpecRun == InitRun /\ [][NextRun]_vars

\* main has ended a run on 2 urls with 2 workers in which every engine
\* initialisation, fetch and engine call succeeded and every manifest was
\* [(0, 2)].
TwoByTwoAllOk ==
    /\ prog = "main" /\ co_pc = "exit"
    /\ Len(p_urls) = 2 /\ num_workers = 2
    /\ all_ok
    /\ \A w \in 1..launched : w_init[w] = "ok"

\* C21: at the end of such a run each of the two workers has gone through
\* exactly one job, its own; 2 artifacts exist, one (0, 2) per video; both
\* source files are deleted; and the counters add up to 2 completed, 0
\* failed, 0 skipped.
C21_EndToEnd ==
    TwoByTwoAllOk
        => /\ exit_code = 0
           /\ launched = 2
           /\ handled = {<<1, 1>>, <<2, 2>>}
           /\ \A w \in {1, 2} :
                 /\ Finished(w) /\ w_idx[w] = 1
                 /\ r_proc[w] = 1 /\ r_fail[w] = 0
                 /\ r_temp[w] = {}
           /\ \A v \in DOMAIN out_files :
                 out_files[v] = IF v \in {1, 2} THEN {<<0, 2>>} ELSE {}

C21_Witness ==
    /\ TwoByTwoAllOk
    /\ r_proc[1] + r_proc[2] = 2
    /\ out_files[1] \cup out_files[2] # {}

====
